---- MODULE Spec2Model ----
(***************************************************************************)
(* A model of VariablurJS (src/src/variablur.js): the blur distribution    *)
(* functions, the gradient-mask geometry and the RefractionEditor          *)
(* displacement buffer with calculateRefractionMap.                        *)
(*                                                                         *)
(* JavaScript numbers are modelled exactly (rationals, with the IEEE       *)
(* specials +Infinity, -Infinity and NaN where a division by zero can      *)
(* produce them); floating-point rounding error is not modelled.           *)
(***************************************************************************)
EXTENDS Integers, Sequences, FiniteSets, TLC

VARIABLES
    blurArgs,   \* arguments of the pending blur-distribution call
    blurRet,    \* its outcome: NoRet, a thrown Error, or the returned value
    maskArgs,   \* arguments of the pending mask computation
    maskRet,    \* its outcome
    editor,     \* the RefractionEditor in use, if any
    edCall,     \* the last call made on or for the editor, with its arguments
    edPrev,     \* the editor's data as the last addTransformation call found it
    ncalls,     \* the number of addTransformation calls made on it
    edRet,      \* what getBorderNormalAndDistance returned, if it was the last call
    css,        \* the page: each element's own declaration of the variablur variables
    attachedElements,       \* WeakSet of the attached elements
    attachedElementsList,   \* Set of the attached elements, in insertion order
    resizeObservers,        \* the elements that have a connected ResizeObserver
    lastCSSVars,            \* per element, the snapshot the last poll stored
    pollingActive,
    pollingHandle,          \* handle of the last global frame request, 0 for null
    elementPollingHandles,  \* per element, its frame handle, 0 for no entry
    globalPollingActive,
    frames,     \* the browser's list of animation frame callbacks, in request order
    called,     \* the elements update(el) was called for in the last step, in order
    lastStep,   \* the last call or callback run, and whether it threw
    glassStyle,         \* one element's --variablur-layers, glass refraction and size
    glassAttached,      \* whether that element is attached
    containers,         \* the backdrop containers created for it: their child nodes
    backdrop,           \* the container el.querySelector finds, 0 for none
    shownLayers,        \* layers as the last update(el) read it
    elementBlobUrls,    \* the element's entry of the WeakMap
    variablurCleanupCallbacks,  \* el.variablurCleanupCallbacks: the URL each revokes
    revokedUrls,        \* the blob URLs passed to URL.revokeObjectURL
    blobCount,          \* the number of blob URLs created; they are 1..blobCount
    pendingFilters      \* createGlassSVGFilter calls waiting for convertToBlob

registryVars == <<attachedElements, attachedElementsList, resizeObservers, lastCSSVars>>
pollingVars ==
    <<pollingActive, pollingHandle, elementPollingHandles, globalPollingActive, frames>>
pollVars == <<css, registryVars, pollingVars, called, lastStep>>
glassVars ==
    <<glassStyle, glassAttached, containers, backdrop, shownLayers, elementBlobUrls,
      variablurCleanupCallbacks, revokedUrls, blobCount, pendingFilters>>
vars ==
    <<blurArgs, blurRet, maskArgs, maskRet, editor, edCall, edPrev, ncalls, edRet,
      pollVars, glassVars>>
blurVars == <<blurArgs, blurRet>>
maskVars == <<maskArgs, maskRet>>
editorVars == <<editor, edCall, edPrev, ncalls, edRet>>

(***************************************************************************)
(* Bounds of the model.                                                    *)
(***************************************************************************)
MaxTotalPx == 4
MaxLayers == 4
MaxBase == 3
MaxCount == 3       \* layer counts n and layers
MaxExtent == 2      \* clientWidth and clientHeight
MaxDim == 3         \* width and height of a displacement buffer
MaxRadius == 0      \* corner radius
MaxRefraction2 == 4 \* refraction, in half units (4 is 2.0)
MaxGlassOffset == 1 \* --variablur-glass-offset, in px
MaxMagnitude == 1000 \* displacement magnitude of an addTransformation call
MaxCalls == 2       \* addTransformation calls on one editor
MaxPollLoops == 2   \* pollCSSVariables callbacks pending at once
MaxMapDim == 4      \* width and height passed to calculateRefractionMap
MaxBorderRadius == 2 \* radius of an editor used for border refraction
MaxStrength == 2    \* refractionStrength
MaxBorderWidth == 2 \* borderWidth, in px
MaxDomLayers == 2   \* --variablur-layers
MaxElementSize == 2 \* offsetWidth = offsetHeight of the element
MaxContainers == 2  \* backdrop containers created for the element
MaxBlobUrls == 3    \* glass filters requested for the element

(***************************************************************************)
(* Outcomes of a call.                                                     *)
(***************************************************************************)
NoRet == [kind |-> "none", fn |-> "", value |-> <<>>]
Throw(f) == [kind |-> "throw", fn |-> f, value |-> <<>>]
Return(f, v) == [kind |-> "return", fn |-> f, value |-> v]

(***************************************************************************)
(* Blur distribution.  A value p / Math.sqrt(q) is kept as the pair        *)
(* [p, q]; its square is p^2 / q.                                          *)
(***************************************************************************)
QuotSqrt(p, q) == [p |-> p, q |-> q]

\* Math.pow(b, e) for an integer exponent e >= 0; Math.pow(0, 0) is 1.
RECURSIVE Pow(_, _)
Pow(b, e) == IF e = 0 THEN 1 ELSE b * Pow(b, e - 1)

\* weights.reduce((sum, w) => sum + w * w, 0)
RECURSIVE SumSquares(_)
SumSquares(ws) ==
    IF ws = <<>> THEN 0
    ELSE Head(ws) * Head(ws) + SumSquares(Tail(ws))

\* weights.reduce((sum, w) => sum + w, 0): the sum without the squares
RECURSIVE SumPlain(_)
SumPlain(ws) ==
    IF ws = <<>> THEN 0 ELSE Head(ws) + SumPlain(Tail(ws))

calcBlurPerLayer_StrictGuard(totalPx, layers) ==
    IF layers < 0 THEN Throw("calcBlurPerLayer")
    ELSE Return("calcBlurPerLayer", <<QuotSqrt(totalPx, layers)>>)

\* The scalar result is held as a one-element sequence.
calcBlurPerLayer(totalPx, layers) ==
    IF layers <= 0 THEN Throw("calcBlurPerLayer")
    ELSE Return("calcBlurPerLayer", <<QuotSqrt(totalPx, layers)>>)

exponentialBlurLayers_PlainSum(totalPx, layers, base) ==
    IF layers <= 0 THEN Throw("exponentialBlurLayers")
    ELSE LET weights == [i \in 1..layers |-> Pow(base, i - 1)]
             weightSquaresSum == SumPlain(weights)
             scale == QuotSqrt(totalPx, weightSquaresSum)
         IN  Return("exponentialBlurLayers",
                    [i \in 1..layers |-> QuotSqrt(weights[i] * scale.p, scale.q)])

exponentialBlurLayers(totalPx, layers, base) ==
    IF layers <= 0 THEN Throw("exponentialBlurLayers")
    ELSE LET weights == [i \in 1..layers |-> Pow(base, i - 1)]
             weightSquaresSum == SumSquares(weights)
             scale == QuotSqrt(totalPx, weightSquaresSum)
         IN  Return("exponentialBlurLayers",
                    [i \in 1..layers |-> QuotSqrt(weights[i] * scale.p, scale.q)])

BlurInputs ==
    [totalPx : 0..MaxTotalPx, layers : -1..MaxLayers, base : -MaxBase..MaxBase]

InitBlur ==
    /\ blurArgs \in BlurInputs
    /\ blurRet = NoRet

IdleBlur ==
    /\ blurArgs = [totalPx |-> 0, layers |-> 1, base |-> 2]
    /\ blurRet = NoRet

CallCalcBlurPerLayer ==
    /\ blurRet = NoRet
    /\ blurRet' = calcBlurPerLayer(blurArgs.totalPx, blurArgs.layers)
    /\ UNCHANGED <<blurArgs, maskVars, editorVars, pollVars, glassVars>>

CallExponentialBlurLayers ==
    /\ blurRet = NoRet
    /\ blurRet' = exponentialBlurLayers(blurArgs.totalPx, blurArgs.layers, blurArgs.base)
    /\ UNCHANGED <<blurArgs, maskVars, editorVars, pollVars, glassVars>>

NextBlur == CallCalcBlurPerLayer \/ CallExponentialBlurLayers

(***************************************************************************)
(* JavaScript numbers: a finite rational n / d with d > 0, +Infinity,      *)
(* -Infinity (kind "inf" with sign n) or NaN.  The sign of zero is not     *)
(* modelled: every divisor here is an element extent or a layer count,     *)
(* which is never -0.                                                      *)
(***************************************************************************)
Fin(n, d) == [k |-> "fin", n |-> n, d |-> d]
Num(n) == Fin(n, 1)
PosInf == [k |-> "inf", n |-> 1, d |-> 0]
NegInf == [k |-> "inf", n |-> -1, d |-> 0]
NaN == [k |-> "nan", n |-> 0, d |-> 0]

Sgn(n) == IF n > 0 THEN 1 ELSE IF n < 0 THEN -1 ELSE 0
Abs(n) == IF n < 0 THEN -n ELSE n
Inf(sign) == IF sign < 0 THEN NegInf ELSE PosInf

\* a * b
JMul(a, b) ==
    IF a.k = "nan" \/ b.k = "nan" THEN NaN
    ELSE IF a.k = "inf" \/ b.k = "inf"
         THEN IF Sgn(a.n) * Sgn(b.n) = 0 THEN NaN ELSE Inf(Sgn(a.n) * Sgn(b.n))
    ELSE Fin(a.n * b.n, a.d * b.d)

\* a / b
JDiv(a, b) ==
    IF a.k = "nan" \/ b.k = "nan" THEN NaN
    ELSE IF a.k = "inf" THEN (IF b.k = "inf" THEN NaN
                              ELSE Inf(a.n * (IF b.n < 0 THEN -1 ELSE 1)))
    ELSE IF b.k = "inf" THEN Num(0)
    ELSE IF b.n = 0 THEN (IF a.n = 0 THEN NaN ELSE Inf(Sgn(a.n)))
    ELSE Fin(a.n * b.d * Sgn(b.n), a.d * Abs(b.n))

\* a + b
JAdd(a, b) ==
    IF a.k = "nan" \/ b.k = "nan" THEN NaN
    ELSE IF a.k = "inf" /\ b.k = "inf" THEN (IF a.n = b.n THEN a ELSE NaN)
    ELSE IF a.k = "inf" THEN a
    ELSE IF b.k = "inf" THEN b
    ELSE Fin(a.n * b.d + b.n * a.d, a.d * b.d)

JNeg(a) == IF a.k = "nan" THEN NaN ELSE [a EXCEPT !.n = -a.n]

\* a - b
JSub(a, b) == JAdd(a, JNeg(b))

\* a < b for numbers that are not NaN
JLess(a, b) ==
    IF a.k = "inf" THEN a.n < 0 /\ ~(b.k = "inf" /\ b.n < 0)
    ELSE IF b.k = "inf" THEN b.n > 0
    ELSE a.n * b.d < b.n * a.d

\* Math.min(a, b) and Math.max(a, b): NaN when either argument is NaN
MathMin(a, b) ==
    IF a.k = "nan" \/ b.k = "nan" THEN NaN ELSE IF JLess(b, a) THEN b ELSE a

MathMax(a, b) ==
    IF a.k = "nan" \/ b.k = "nan" THEN NaN ELSE IF JLess(a, b) THEN b ELSE a

(***************************************************************************)
(* The gradient mask of one layer.                                         *)
(***************************************************************************)
\* The direction strings the model draws from: the four edges, a value in
\* another case, the empty (missing) value, an unrecognized one and one that
\* names a property every object inherits from Object.prototype.
DirectionStrings ==
    {"top", "bottom", "left", "right", "Left", "", "diagonal", "constructor"}

\* The property names of Object.prototype among DirectionStrings; the value
\* found under them is a function, which is truthy.
ObjectPrototypeKeys == {"constructor"}

\* String.prototype.toLowerCase on DirectionStrings
toLowerCase(str) == IF str = "Left" THEN "left" ELSE str

\* const clamp = v => Math.max(0, Math.min(100, v))
clamp(v) == MathMax(Num(0), MathMin(Num(100), v))

\* { top: "to top", left: "to left", right: "to right", bottom: "to bottom" }[dir] || "to bottom"
\* The result "to <edge>" is held as the edge.  The lookup on the object
\* literal also finds inherited properties, whose value the template then
\* renders as the source text of a function.
gradientDirOf(dir) ==
    IF dir \in {"top", "left", "right", "bottom"} THEN dir
    ELSE IF dir \in ObjectPrototypeKeys THEN "function Object() { [native code] }"
    ELSE "bottom"

\* calculateMask with  + shift  in place of  + 100 * shift.
calculateMask_ShiftUnscaled(i, n, direction, offset, el, invert) ==
    LET step == JDiv(Num(100), Num(n))
        dir == toLowerCase(IF direction = "" THEN "bottom" ELSE direction)
        size == IF dir = "left" \/ dir = "right" THEN el.clientWidth ELSE el.clientHeight
        scale0 == JDiv(Num(offset), Num(size))
        scale == IF invert THEN JSub(Num(1), scale0) ELSE scale0
        shift == JSub(Num(1), scale)
    IN  [gradientDir |-> gradientDirOf(dir),
         a |-> JAdd(JMul(clamp(JMul(Num(i - 1), step)), scale), shift),
         c |-> JAdd(JMul(clamp(JMul(Num(i + 1), step)), scale), shift),
         d |-> JAdd(JMul(clamp(JMul(Num(i + 2), step)), scale), shift)]

\* calculateMask(i, n, direction, offset, el, invert): the gradient's
\* direction and its three stop percentages a, c, d.
calculateMask(i, n, direction, offset, el, invert) ==
    LET step == JDiv(Num(100), Num(n))
        dir == toLowerCase(IF direction = "" THEN "bottom" ELSE direction)
        size == IF dir = "left" \/ dir = "right" THEN el.clientWidth ELSE el.clientHeight
        scale0 == JDiv(Num(offset), Num(size))
        scale == IF invert THEN JSub(Num(1), scale0) ELSE scale0
        shift == JSub(Num(1), scale)
    IN  [gradientDir |-> gradientDirOf(dir),
         a |-> JAdd(JMul(clamp(JMul(Num(i - 1), step)), scale), JMul(Num(100), shift)),
         c |-> JAdd(JMul(clamp(JMul(Num(i + 1), step)), scale), JMul(Num(100), shift)),
         d |-> JAdd(JMul(clamp(JMul(Num(i + 2), step)), scale), JMul(Num(100), shift))]

\* The part of update(el) that computes the masks: the direction is
\* validated, each blur layer i < layers gets calculateMask(i, layers + 1,
\* direction, offset, el, true), and the top layer (i = layers) is opaque up
\* to scale * 100 percent, scale = offset / size.
updateMasks(variablurDirection, offset, layers, el) ==
    LET direction == IF variablurDirection \in {"top", "bottom", "left", "right"}
                     THEN variablurDirection ELSE "bottom"
        size == IF direction = "left" \/ direction = "right"
                THEN el.clientWidth ELSE el.clientHeight
        scale == JDiv(Num(offset), Num(size))
    IN  [direction |-> direction,
         masks |-> [i \in 1..layers |->
                        calculateMask(i - 1, layers + 1, direction, offset, el, TRUE)],
         top |-> <<JMul(scale, Num(100))>>]

Elements == [clientWidth : 0..MaxExtent, clientHeight : 0..MaxExtent]

MaskInputs ==
    [i : 0..MaxCount, n : 1..MaxCount, layers : 1..MaxCount,
     direction : DirectionStrings, offset : 0..(MaxExtent + 1),
     el : Elements, invert : BOOLEAN]

InitMask ==
    /\ maskArgs \in MaskInputs
    /\ maskRet = NoRet

IdleMask ==
    /\ maskArgs = [i |-> 0, n |-> 1, layers |-> 1, direction |-> "bottom",
                   offset |-> 0, el |-> [clientWidth |-> 0, clientHeight |-> 0],
                   invert |-> FALSE]
    /\ maskRet = NoRet

CallCalculateMask ==
    /\ maskRet = NoRet
    /\ maskRet' = Return("calculateMask",
                     [direction |-> maskArgs.direction,
                      masks |-> <<calculateMask(maskArgs.i, maskArgs.n, maskArgs.direction,
                                                maskArgs.offset, maskArgs.el, maskArgs.invert)>>,
                      top |-> <<>>])
    /\ UNCHANGED <<maskArgs, blurVars, editorVars, pollVars, glassVars>>

CallUpdate ==
    /\ maskRet = NoRet
    /\ maskRet' = Return("update",
                     updateMasks(maskArgs.direction, maskArgs.offset, maskArgs.layers,
                                 maskArgs.el))
    /\ UNCHANGED <<maskArgs, blurVars, editorVars, pollVars, glassVars>>

NextMask == CallCalculateMask \/ CallUpdate

(***************************************************************************)
(* Integer arguments that may lie outside the 32-bit range are kept as     *)
(* two limbs: the value of Big(hi, lo) is hi * 2^16 + lo, 0 <= lo < 2^16.  *)
(***************************************************************************)
TwoPow16 == 65536
TwoPow30 == 1073741824

Big(hi, lo) == [hi |-> hi, lo |-> lo]
Small(n) == Big(0, n)
Val(v) == v.hi * TwoPow16 + v.lo          \* for values within TLC's integers
IsPositive(v) == v.hi > 0 \/ (v.hi = 0 /\ v.lo > 0)
IsZero(v) == v.hi = 0 /\ v.lo = 0

\* The conversion of an argument to WebIDL's unsigned long: modulo 2^32.
ToUint32(v) == Big(v.hi % TwoPow16, v.lo)

\* new ImageData(sw, sh): both arguments are converted to unsigned long; a
\* zero width or height throws IndexSizeError, a buffer of 4 * sw * sh bytes
\* beyond the 32-bit range throws too; otherwise the data is zero-filled.
ImageData(width, height) ==
    LET sw == ToUint32(width)
        sh == ToUint32(height)
    IN  IF IsZero(sw) \/ IsZero(sh) THEN [ok |-> FALSE, width |-> 0, height |-> 0]
        ELSE IF \/ sw.hi >= TwoPow30 \div TwoPow16
                \/ sh.hi >= TwoPow30 \div TwoPow16
                \/ Val(sw) > (TwoPow30 - 1) \div Val(sh)
             THEN [ok |-> FALSE, width |-> 0, height |-> 0]
        ELSE [ok |-> TRUE, width |-> Val(sw), height |-> Val(sh)]

(***************************************************************************)
(* RefractionEditor.  imageData.data is a function from the byte index     *)
(* 0 .. 4 * width * height - 1 to 0..255 (a Uint8ClampedArray); pixel      *)
(* (x, y) has its R, G, B, A at 4 * (y * width + x) + 0..3.                *)
(***************************************************************************)
Neutral == 127
Opaque == 255

NoData == [i \in 0..-1 |-> 0]

NoEditor ==
    [status |-> "none", width |-> Small(0), height |-> Small(0), radius |-> 0,
     imageData |-> [width |-> 0, height |-> 0, data |-> NoData]]

ThrownEditor(width, height, radius) ==
    [status |-> "throw", width |-> width, height |-> height, radius |-> radius,
     imageData |-> [width |-> 0, height |-> 0, data |-> NoData]]

\* A constructor that leaves the alpha channel as ImageData created it.
RefractionEditor_AlphaUnset(width, height, radius) ==
    LET img == ImageData(width, height) IN
    IF ~img.ok THEN ThrownEditor(width, height, radius)
    ELSE [status |-> "constructed", width |-> width, height |-> height,
          radius |-> radius,
          imageData |->
              [width |-> img.width, height |-> img.height,
               data |-> [i \in 0..(4 * img.width * img.height - 1) |->
                            IF i % 4 = 3 THEN 0 ELSE Neutral]]]

\* constructor(width, height, radius)
RefractionEditor(width, height, radius) ==
    LET img == ImageData(width, height) IN
    IF ~img.ok THEN ThrownEditor(width, height, radius)
    ELSE [status |-> "constructed", width |-> width, height |-> height,
          radius |-> radius,
          imageData |->
              [width |-> img.width, height |-> img.height,
               data |-> [i \in 0..(4 * img.width * img.height - 1) |->
                            IF i % 4 = 3 THEN Opaque ELSE Neutral]]]

Min(a, b) == IF a < b THEN a ELSE b
Max(a, b) == IF a > b THEN a ELSE b

\* Math.round(n / d) for d > 0: the nearest integer, halves rounded up.
Round(n, d) == (2 * n + d) \div (2 * d)

\* A channel write that keeps the low 8 bits instead of saturating.
ClampChannel_Wrap(v) == v % 256

\* Math.max(0, Math.min(255, v)) of a rounded value
ClampChannel(v) == Max(0, Min(255, v))

\* Coordinates are kept in half units (x2 = 2 * x), which holds the
\* half-integer rectangles calculateRefractionMap passes for odd sizes.
\* The (x2, y2) of the loop  for (y = dy; y < dy + dh; y++)
\*                             for (x = dx; x < dx + dw; x++)
\* in the order the loop visits them.
LoopPixels(dx2, dy2, dw2, dh2) ==
    IF dw2 <= 0 \/ dh2 <= 0 THEN <<>>
    ELSE LET nx == (dw2 - 1) \div 2 + 1
             ny == (dh2 - 1) \div 2 + 1
         IN  [k \in 1..(nx * ny) |->
                 [x2 |-> dx2 + 2 * ((k - 1) % nx), y2 |-> dy2 + 2 * ((k - 1) \div nx)]]

\* gradientSegment, as a fraction [n, d] clamped to [0, 1]
gradientSegment(direction, x2, y2, dx2, dy2, dw2, dh2) ==
    LET raw == CASE direction = "down" -> [n |-> y2 - dy2, d |-> dh2]
                 [] direction \in {"up", "top"} -> [n |-> dh2 - (y2 - dy2), d |-> dh2]
                 [] direction = "right" -> [n |-> x2 - dx2, d |-> dw2]
                 [] direction = "left" -> [n |-> dw2 - (x2 - dx2), d |-> dw2]
                 [] OTHER -> [n |-> y2 - dy2, d |-> dh2]
    IN  [n |-> Max(0, Min(raw.d, raw.n)), d |-> raw.d]

\* The easing functions in use: x => x (also x => Math.pow(x, 1)) and
\* x => x * x.
Easings == {"linear", "quad"}
ease(easing, g) ==
    IF easing = "quad" THEN [n |-> g.n * g.n, d |-> g.d * g.d] ELSE g

\* The loop body with  r = 127 * vx * e  in place of  r += 127 * vx * e  on
\* the neutral value: the channel's previous content is lost.
transformPixel_Overwrite(img, px, vx4, vy4, direction, dx2, dy2, dw2, dh2, easing) ==
    IF \/ px.x2 < 0 \/ px.y2 < 0
       \/ px.x2 >= 2 * img.width \/ px.y2 >= 2 * img.height
    THEN img.data
    ELSE LET e == ease(easing,
                       gradientSegment(direction, px.x2, px.y2, dx2, dy2, dw2, dh2))
             pixelIndex == 2 * (px.y2 * img.width + px.x2)
             write(i, v4) ==
                 ClampChannel(Round(127 * 4 * e.d + 127 * v4 * e.n, 4 * e.d))
             len == 4 * img.width * img.height
             data1 == IF pixelIndex < len
                      THEN [img.data EXCEPT ![pixelIndex] = write(pixelIndex, vx4)]
                      ELSE img.data
         IN  IF pixelIndex + 2 < len
             THEN [data1 EXCEPT ![pixelIndex + 2] = write(pixelIndex + 2, vy4)]
             ELSE data1

\* One pass of the loop body on pixel (x2, y2).  vx4 and vy4 are the
\* displacements in quarter units (vx = vx4 / 4).  A read beyond the array
\* gives undefined and a write beyond it is ignored.
transformPixel(img, px, vx4, vy4, direction, dx2, dy2, dw2, dh2, easing) ==
    IF \/ px.x2 < 0 \/ px.y2 < 0
       \/ px.x2 >= 2 * img.width \/ px.y2 >= 2 * img.height
    THEN img.data
    ELSE LET e == ease(easing,
                       gradientSegment(direction, px.x2, px.y2, dx2, dy2, dw2, dh2))
             pixelIndex == 2 * (px.y2 * img.width + px.x2)
             write(i, v4) ==
                 ClampChannel(Round(img.data[i] * 4 * e.d + 127 * v4 * e.n, 4 * e.d))
             len == 4 * img.width * img.height
             data1 == IF pixelIndex < len
                      THEN [img.data EXCEPT ![pixelIndex] = write(pixelIndex, vx4)]
                      ELSE img.data
         IN  IF pixelIndex + 2 < len
             THEN [data1 EXCEPT ![pixelIndex + 2] = write(pixelIndex + 2, vy4)]
             ELSE data1

RECURSIVE transformLoop(_, _, _, _, _, _, _, _, _, _)
transformLoop(img, pixels, vx4, vy4, direction, dx2, dy2, dw2, dh2, easing) ==
    IF pixels = <<>> THEN img.data
    ELSE transformLoop(
            [img EXCEPT !.data = transformPixel(img, Head(pixels), vx4, vy4, direction,
                                                dx2, dy2, dw2, dh2, easing)],
            Tail(pixels), vx4, vy4, direction, dx2, dy2, dw2, dh2, easing)

\* addTransformation(vx, vy, direction, dx, dy, dw, dh, easing) with constant
\* displacements; the result is the editor with its data updated.
addTransformation(ed, vx4, vy4, direction, dx2, dy2, dw2, dh2, easing) ==
    [ed EXCEPT !.imageData.data =
        transformLoop(ed.imageData, LoopPixels(dx2, dy2, dw2, dh2), vx4, vy4,
                      direction, dx2, dy2, dw2, dh2, easing)]

\* calculateRefractionMap(refraction, width, height, radius).  refraction2 is
\* the refraction in half units, so refraction / 2 is refraction2 quarter
\* units; offset = height / 2 and width / 2 are height and width half units.
\* With a non-positive width or height every loop of the four calls is
\* empty.
calculateRefractionMap(refraction2, width, height, radius) ==
    LET ed0 == RefractionEditor(width, height, radius)
    IN  IF ed0.status = "throw" THEN ed0
        ELSE IF ~IsPositive(width) \/ ~IsPositive(height) THEN ed0
        ELSE LET w == Val(width)
                 h == Val(height)
                 ed1 == addTransformation(ed0, 0, refraction2, "top",
                                          0, 0, 2 * w, h, "linear")
                 ed2 == addTransformation(ed1, 0, -refraction2, "bottom",
                                          0, 2 * h - h, 2 * w, h, "linear")
                 ed3 == addTransformation(ed2, refraction2, 0, "left",
                                          0, 0, w, 2 * h, "linear")
             IN  addTransformation(ed3, -refraction2, 0, "right",
                                   2 * w - w, 0, w, 2 * h, "linear")

\* The radius both border functions work with, in half units:
\* r = Math.max(0, Math.min(this.radius, Math.min(w, h) / 2))
clampedRadius2(ed) ==
    Max(0, Min(2 * ed.radius, Min(Val(ed.width), Val(ed.height))))

\* Results of getBorderNormalAndDistance hold square roots; they are kept
\* exact.  A normal [x, y, root] is (x, y) / sqrt(root); a distance
\* [a2, root] is (a2 - sqrt(root)) / 2.
NoBorder ==
    [normal |-> [x |-> 0, y |-> 0, root |-> 1],
     distToBorder |-> [a2 |-> 0, root |-> 0], isCorner |-> FALSE, returned |-> FALSE]

StraightEdge(nx, ny, dist) ==
    [normal |-> [x |-> nx, y |-> ny, root |-> 1],
     distToBorder |-> [a2 |-> 2 * dist, root |-> 0], isCorner |-> FALSE,
     returned |-> TRUE]

\* The branch taken for a pixel in the corner whose circle has its centre at
\* (cx2, cy2) / 2; dist || 1 makes the normal (0, 0) at the centre itself.
CornerArc(r2, x2, y2, cx2, cy2) ==
    LET dx2 == x2 - cx2
        dy2 == y2 - cy2
        q == dx2 * dx2 + dy2 * dy2
    IN  [normal |-> IF q = 0 THEN [x |-> 0, y |-> 0, root |-> 1]
                    ELSE [x |-> dx2, y |-> dy2, root |-> q],
         distToBorder |-> [a2 |-> r2, root |-> q], isCorner |-> TRUE,
         returned |-> TRUE]

getBorderNormalAndDistance(ed, x, y) ==
    LET w == Val(ed.width)
        h == Val(ed.height)
        r2 == clampedRadius2(ed)
        x2 == 2 * x
        y2 == 2 * y
    IN  IF x2 < r2 /\ y2 < r2 THEN CornerArc(r2, x2, y2, r2, r2)
        ELSE IF x2 >= 2 * w - r2 /\ y2 < r2
             THEN CornerArc(r2, x2, y2, 2 * w - r2 - 2, r2)
        ELSE IF x2 < r2 /\ y2 >= 2 * h - r2
             THEN CornerArc(r2, x2, y2, r2, 2 * h - r2 - 2)
        ELSE IF x2 >= 2 * w - r2 /\ y2 >= 2 * h - r2
             THEN CornerArc(r2, x2, y2, 2 * w - r2 - 2, 2 * h - r2 - 2)
        ELSE IF y2 < r2 THEN StraightEdge(0, -1, y)
        ELSE IF y2 >= 2 * h - r2 THEN StraightEdge(0, 1, h - 1 - y)
        ELSE IF x2 < r2 THEN StraightEdge(-1, 0, x)
        ELSE IF x2 >= 2 * w - r2 THEN StraightEdge(1, 0, w - 1 - x)
        ELSE StraightEdge(0, 0, Min(Min(x, y), Min(w - 1 - x, h - 1 - y)))

\* a * a * root as hi * 10^6 + lo with 0 <= lo < 10^6, so that the product
\* is exact where it exceeds 32 bits (JS numbers are exact up to 2^53)
SquareTimes(a, root) ==
    LET m == IF a < 0 THEN -a ELSE a
        h == m \div 1000
        l == m % 1000
        mid == 2 * h * l
        low == (mid % 1000) * 1000 + l * l
        lo == (low % 1000000) * root
    IN  [hi |-> (h * h + mid \div 1000 + low \div 1000000) * root + lo \div 1000000,
         lo |-> lo % 1000000]

WideLeq(u, v) == u.hi < v.hi \/ (u.hi = v.hi /\ u.lo <= v.lo)

\* a * sqrt(root) <= b, for integers a, b and root >= 0
LeqRoot(a, root, b) ==
    IF a >= 0 THEN b >= 0 /\ WideLeq(SquareTimes(a, root), SquareTimes(b, 1))
    ELSE b >= 0 \/ WideLeq(SquareTimes(b, 1), SquareTimes(a, root))

\* Math.round((p / sqrt(root) + c) / d) for d > 0 and root > 0: the integer m
\* with m - 1/2 <= value < m + 1/2.
RoundRoot(p, c, d, root) ==
    CHOOSE m \in -((Abs(p) + Abs(c)) \div d + 1)..((Abs(p) + Abs(c)) \div d + 1) :
        /\ LeqRoot((2 * m - 1) * d - 2 * c, root, 2 * p)
        /\ ~LeqRoot((2 * m + 1) * d - 2 * c, root, 2 * p)

Falloffs == {"quad", "linear"}

\* t of applyBorderRadiusRefraction after the clamp, before falloff, as
\* (n + e * sqrt(dist.root)) / d:
\*   borderDist = Math.max(0, Math.min(borderWidth, distToBorder))
\*   t = 1 - borderDist / (borderWidth || 1)
attenuation(dist, borderWidth) ==
    IF borderWidth = 0 \/ LeqRoot(-1, dist.root, -dist.a2)
    THEN [n |-> 1, e |-> 0, d |-> 1]
    ELSE IF LeqRoot(1, dist.root, dist.a2 - 2 * borderWidth)
    THEN [n |-> 0, e |-> 0, d |-> 1]
    ELSE [n |-> 2 * borderWidth - dist.a2,
          e |-> IF dist.root = 0 THEN 0 ELSE 1, d |-> 2 * borderWidth]

\* Math.round(127 * n * refractionStrength * falloff(t)) for the component
\* comp of the normal: the amount added to the channel before clamping.
displacement(comp, b, refractionStrength, borderWidth, falloff) ==
    LET t == attenuation(b.distToBorder, borderWidth)
        k == 127 * refractionStrength * comp
        q == b.distToBorder.root
    IN  IF comp = 0 THEN 0
        ELSE IF falloff = "quad"
        THEN RoundRoot(k * (t.n * t.n + t.e * q), k * 2 * t.e * t.n, t.d * t.d,
                       b.normal.root)
        ELSE RoundRoot(k * t.n, k * t.e, t.d, b.normal.root)

\* applyBorderRadiusRefraction(refractionStrength, borderWidth, falloff): each
\* pass of the loops reads and writes the R and B bytes of its own pixel
\* only, so the result is given byte by byte.
applyBorderRadiusRefraction(ed, refractionStrength, borderWidth, falloff) ==
    LET w == Val(ed.width)
        border(i) == getBorderNormalAndDistance(ed, (i \div 4) % w, (i \div 4) \div w)
    IN  [ed EXCEPT !.imageData.data =
            [i \in DOMAIN @ |->
                IF i % 4 = 0
                THEN ClampChannel(@[i] + displacement(border(i).normal.x, border(i),
                                        refractionStrength, borderWidth, falloff))
                ELSE IF i % 4 = 2
                THEN ClampChannel(@[i] + displacement(border(i).normal.y, border(i),
                                        refractionStrength, borderWidth, falloff))
                ELSE @[i]]]

NoCall ==
    [fn |-> "none", refraction2 |-> 0, glassOffset |-> 0, vx4 |-> 0, vy4 |-> 0,
     direction |-> "", dx2 |-> 0, dy2 |-> 0, dw2 |-> 0, dh2 |-> 0, easing |-> "",
     x |-> 0, y |-> 0, refractionStrength |-> 0, borderWidth |-> 0, falloff |-> ""]

\* Widths and heights a caller may pass: 0, the sizes up to MaxDim, -1 and
\* -(2^32 - 1).
DimArgs ==
    {Small(k) : k \in 0..MaxDim} \cup {Big(-1, TwoPow16 - 1), Big(-TwoPow16, 1)}

\* Widths and heights passed to calculateRefractionMap: as DimArgs, with the
\* sizes up to MaxMapDim.
MapDimArgs == DimArgs \cup {Small(k) : k \in 0..MaxMapDim}

\* The addTransformation calls drawn.  Displacements are in quarter units:
\* +- MaxMagnitude on both axes, and vx = 0.25 with vy = -0.5.  Rectangles are
\* in half units: one reaching beyond every buffer, one at half-integer
\* coordinates and one of 2 x 2 pixels at the origin.
Displacements ==
    {<<4 * MaxMagnitude, 4 * MaxMagnitude>>, <<-4 * MaxMagnitude, -4 * MaxMagnitude>>,
     <<1, -2>>}
Directions == {"down", "top", "left", "right", "bottom"}
RectBeyond ==
    [dx2 |-> -2, dy2 |-> -2, dw2 |-> 2 * MaxDim + 4, dh2 |-> 2 * MaxDim + 4,
     easing |-> "linear"]
RectHalf == [dx2 |-> 1, dy2 |-> 1, dw2 |-> 3, dh2 |-> 3, easing |-> "quad"]
RectWhole == [dx2 |-> 0, dy2 |-> 0, dw2 |-> 4, dh2 |-> 4, easing |-> "linear"]
Rects == {RectBeyond, RectHalf, RectWhole}

\* The argument lists drawn from these: every branch of the direction switch
\* with each kind of displacement and rectangle it matters for.
Transformations ==
    {t \in [v : Displacements, direction : Directions, rect : Rects] :
        \/ /\ t.rect = RectBeyond
           /\ \/ t.v[1] > 1 /\ t.direction \in {"down", "left"}
              \/ t.v[1] < 0 /\ t.direction = "right"
              \/ t.v[1] = 1 /\ t.direction = "bottom"
        \/ /\ t.rect = RectHalf
           /\ t.v[1] = 1 /\ t.direction \in {"down", "left"}
        \/ /\ t.rect = RectWhole
           /\ \/ t.v[1] = 1 /\ t.direction \in {"down", "top", "left", "right"}
              \/ t.v[1] < 0 /\ t.direction = "top"}

InitEditor ==
    /\ editor = NoEditor
    /\ edCall = NoCall
    /\ edPrev = NoData
    /\ edRet = NoBorder
    /\ ncalls = 0

NewRefractionEditor ==
    /\ editor.status = "none"
    /\ \E width \in DimArgs, height \in DimArgs, radius \in 0..MaxRadius :
          editor' = RefractionEditor(width, height, radius)
    /\ edCall' = [NoCall EXCEPT !.fn = "RefractionEditor"]
    /\ edPrev' = NoData
    /\ edRet' = NoBorder
    /\ ncalls' = 0
    /\ UNCHANGED <<blurVars, maskVars, pollVars, glassVars>>

AddTransformation ==
    /\ editor.status = "constructed"
    /\ edCall.fn \in {"RefractionEditor", "addTransformation"}
    /\ ncalls < MaxCalls
    /\ \E t \in Transformations :
          /\ editor' = addTransformation(editor, t.v[1], t.v[2], t.direction,
                                         t.rect.dx2, t.rect.dy2, t.rect.dw2,
                                         t.rect.dh2, t.rect.easing)
          /\ edCall' = [NoCall EXCEPT !.fn = "addTransformation",
                                      !.vx4 = t.v[1], !.vy4 = t.v[2],
                                      !.direction = t.direction,
                                      !.dx2 = t.rect.dx2, !.dy2 = t.rect.dy2,
                                      !.dw2 = t.rect.dw2, !.dh2 = t.rect.dh2,
                                      !.easing = t.rect.easing]
    /\ edPrev' = editor.imageData.data
    /\ edRet' = NoBorder
    /\ ncalls' = ncalls + 1
    /\ UNCHANGED <<blurVars, maskVars, pollVars, glassVars>>

CallCalculateRefractionMap ==
    /\ editor.status = "none"
    /\ \E refraction2 \in 0..MaxRefraction2, width \in MapDimArgs,
          height \in MapDimArgs, radius \in 0..MaxRadius :
          /\ editor' = calculateRefractionMap(refraction2, width, height, radius)
          /\ edCall' = [NoCall EXCEPT !.fn = "calculateRefractionMap",
                                      !.refraction2 = refraction2]
    /\ edPrev' = NoData
    /\ edRet' = NoBorder
    /\ ncalls' = 0
    /\ UNCHANGED <<blurVars, maskVars, pollVars, glassVars>>

\* createGlassSVGFilter(el) up to its call of calculateRefractionMap: the
\* element's size, --variablur-glass-refraction, --variablur-glass-offset and
\* border radius are read, and the offset is not passed on.
CreateGlassSVGFilter ==
    /\ editor.status = "none"
    /\ \E offsetWidth \in 0..MaxDim, offsetHeight \in 0..MaxDim,
          refractionValue2 \in 0..MaxRefraction2, offsetValue \in 1..MaxGlassOffset,
          borderRadius \in 0..MaxRadius :
          /\ editor' = calculateRefractionMap(refractionValue2, Small(offsetWidth),
                                              Small(offsetHeight), borderRadius)
          /\ edCall' = [NoCall EXCEPT !.fn = "createGlassSVGFilter",
                                      !.refraction2 = refractionValue2,
                                      !.glassOffset = offsetValue]
    /\ edPrev' = NoData
    /\ edRet' = NoBorder
    /\ ncalls' = 0
    /\ UNCHANGED <<blurVars, maskVars, pollVars, glassVars>>

\* new RefractionEditor(width, height, radius).getBorderNormalAndDistance(x, y)
\* for a pixel (x, y) of the buffer.
GetBorderNormalAndDistance ==
    /\ editor.status = "none"
    /\ \E width \in 1..MaxDim, height \in 1..MaxDim, radius \in -1..MaxBorderRadius :
          \E x \in 0..(width - 1), y \in 0..(height - 1) :
             /\ editor' = RefractionEditor(Small(width), Small(height), radius)
             /\ edCall' = [NoCall EXCEPT !.fn = "getBorderNormalAndDistance",
                                         !.x = x, !.y = y]
             /\ edRet' = getBorderNormalAndDistance(editor', x, y)
    /\ edPrev' = NoData
    /\ ncalls' = 0
    /\ UNCHANGED <<blurVars, maskVars, pollVars, glassVars>>

\* new RefractionEditor(width, height, radius)
\*     .applyBorderRadiusRefraction(refractionStrength, borderWidth, falloff)
ApplyBorderRadiusRefraction ==
    /\ editor.status = "none"
    /\ \E width \in 1..MaxDim, height \in 1..MaxDim, radius \in -1..MaxBorderRadius,
          refractionStrength \in 0..MaxStrength, borderWidth \in 0..MaxBorderWidth,
          falloff \in Falloffs :
             /\ editor' = applyBorderRadiusRefraction(
                              RefractionEditor(Small(width), Small(height), radius),
                              refractionStrength, borderWidth, falloff)
             /\ edCall' = [NoCall EXCEPT !.fn = "applyBorderRadiusRefraction",
                                         !.refractionStrength = refractionStrength,
                                         !.borderWidth = borderWidth,
                                         !.falloff = falloff]
    /\ edPrev' = NoData
    /\ edRet' = NoBorder
    /\ ncalls' = 0
    /\ UNCHANGED <<blurVars, maskVars, pollVars, glassVars>>

NextEditor ==
    \/ NewRefractionEditor
    \/ AddTransformation
    \/ CallCalculateRefractionMap
    \/ CreateGlassSVGFilter
    \/ GetBorderNormalAndDistance
    \/ ApplyBorderRadiusRefraction

(***************************************************************************)
(* Attachment and polling.  The document is three nested elements: 1       *)
(* contains 2, which contains 3.  The seven variablur variables of an      *)
(* element are held as one value: "" when none is declared on it, "a" or   *)
(* "b" for two different declarations, and "bad" for one with              *)
(* --variablur-layers: -2, under which update throws (its first loop runs  *)
(* removeChild(lastChild) on an empty container).  Custom properties       *)
(* inherit.                                                                *)
(***************************************************************************)
DomElements == {1, 2, 3}
NoElement == 0
CssValues == {"", "a", "b", "bad"}

parentElement(el) == el - 1

\* el.querySelectorAll('*'): the descendants of el in document order
querySelectorAll(el) == [k \in 1..(3 - el) |-> el + k]

\* window.getComputedStyle(el).getPropertyValue(variable).trim()
RECURSIVE getComputedStyle(_)
getComputedStyle(el) ==
    IF css[el] # "" THEN css[el]
    ELSE IF parentElement(el) = NoElement THEN ""
    ELSE getComputedStyle(parentElement(el))

\* The while loop of hasAnyVariablurCSS from the ancestor parent on: TRUE
\* when val is found to be inherited.
RECURSIVE inheritedFrom(_, _)
inheritedFrom(parent, val) ==
    IF parent = NoElement THEN FALSE
    ELSE IF getComputedStyle(parent) = val THEN TRUE
    ELSE IF getComputedStyle(parent) # "" THEN FALSE
    ELSE inheritedFrom(parentElement(parent), val)

hasAnyVariablurCSS(node) ==
    /\ node # NoElement
    /\ getComputedStyle(node) # ""
    /\ ~inheritedFrom(parentElement(node), getComputedStyle(node))

\* The state a handler works on: the module's variables, the browser's
\* callback list, the update calls made so far and whether an exception is
\* propagating.
World ==
    [attachedElements |-> attachedElements,
     attachedElementsList |-> attachedElementsList,
     resizeObservers |-> resizeObservers,
     lastCSSVars |-> lastCSSVars,
     pollingActive |-> pollingActive,
     pollingHandle |-> pollingHandle,
     elementPollingHandles |-> elementPollingHandles,
     globalPollingActive |-> globalPollingActive,
     frames |-> frames,
     called |-> <<>>,
     thrown |-> FALSE]

\* F(v), with v evaluated once.
Bind(v, F(_)) == CHOOSE r \in {F(x) : x \in {v}} : TRUE

\* Handles are only compared for equality, so the model hands out the
\* smallest number that no pending callback and no variable holds.
UsedHandles(w) ==
    {w.frames[i].handle : i \in DOMAIN w.frames}
        \cup {w.pollingHandle}
        \cup {w.elementPollingHandles[el] : el \in DomElements}

FreshHandle(w) ==
    Bind(UsedHandles(w), LAMBDA used :
        CHOOSE h \in 1..(Cardinality(used) + 1) :
            h \notin used /\ \A k \in 1..(h - 1) : k \in used)

\* requestAnimationFrame(callback); the handle returned is FreshHandle(w)
requestAnimationFrame(w, fn, el) ==
    [w EXCEPT !.frames = Append(@, [handle |-> FreshHandle(w), fn |-> fn, el |-> el])]

cancelAnimationFrame(w, handle) ==
    [w EXCEPT !.frames = SelectSeq(@, LAMBDA f : f.handle # handle)]

\* update(el), as far as attachment and polling see it: the call is made and
\* it throws under --variablur-layers: -2.
update(w, el) ==
    [w EXCEPT !.called = Append(@, el), !.thrown = (getComputedStyle(el) = "bad")]

\* The comparison of the seven variables with the stored snapshot and the
\* update that follows a difference (shared by both polling functions).
pollElement(w, el) ==
    IF w.lastCSSVars[el] # getComputedStyle(el)
    THEN update([w EXCEPT !.lastCSSVars[el] = getComputedStyle(el)], el)
    ELSE w

\* attachedElementsList.forEach(...) of pollCSSVariables; an exception ends it
RECURSIVE pollEach(_, _)
pollEach(w0, list) ==
    Bind(w0, LAMBDA w :
        IF list = <<>> \/ w.thrown THEN w
        ELSE pollEach(pollElement(w, Head(list)), Tail(list)))

pollCSSVariables(w) ==
    Bind(pollEach(w, w.attachedElementsList), LAMBDA w1 :
        IF w1.thrown THEN w1
        ELSE IF w1.pollingActive
             THEN [requestAnimationFrame(w1, "pollCSSVariables", NoElement)
                      EXCEPT !.pollingHandle = FreshHandle(w1)]
        ELSE w1)

pollElementCSSVariables(w, el) ==
    IF el \notin w.attachedElements THEN w
    ELSE Bind(pollElement(w, el), LAMBDA w1 :
            IF w1.thrown THEN w1
            ELSE IF w1.elementPollingHandles[el] # 0
                 THEN [requestAnimationFrame(w1, "pollElementCSSVariables", el)
                          EXCEPT !.elementPollingHandles[el] = FreshHandle(w1)]
            ELSE w1)

startElementPolling(w, el) ==
    IF w.globalPollingActive THEN w
    ELSE IF w.elementPollingHandles[el] = 0
         THEN [requestAnimationFrame(w, "pollElementCSSVariables", el)
                  EXCEPT !.elementPollingHandles[el] = FreshHandle(w)]
    ELSE w

stopElementPolling(w, el) ==
    IF w.elementPollingHandles[el] # 0
    THEN [cancelAnimationFrame(w, w.elementPollingHandles[el])
             EXCEPT !.elementPollingHandles[el] = 0]
    ELSE w

\* attachedElementsList.forEach(...) of startPolling
RECURSIVE stopEach(_, _)
stopEach(w0, list) ==
    Bind(w0, LAMBDA w :
        IF list = <<>> THEN w
        ELSE stopEach(stopElementPolling(w, Head(list)), Tail(list)))

startPolling(w) ==
    Bind([stopEach(w, w.attachedElementsList)
             EXCEPT !.pollingActive = TRUE, !.globalPollingActive = TRUE],
         LAMBDA w1 : pollCSSVariables(w1))

stopPolling(w) ==
    Bind([w EXCEPT !.pollingActive = FALSE, !.globalPollingActive = FALSE],
         LAMBDA w1 :
            IF w1.pollingHandle # 0
            THEN [cancelAnimationFrame(w1, w1.pollingHandle) EXCEPT !.pollingHandle = 0]
            ELSE w1)

RECURSIVE attach(_, _)
RECURSIVE attachEach(_, _)

\* The first part of attach(el): el is registered, updated, observed and
\* polled when it was not attached yet.
attachSelf(w, el) ==
    IF el \in w.attachedElements THEN w
    ELSE Bind(update([w EXCEPT !.attachedElements = @ \cup {el},
                               !.attachedElementsList = Append(@, el)], el),
              LAMBDA w1 :
                 IF w1.thrown THEN w1
                 ELSE Bind([w1 EXCEPT !.resizeObservers = @ \cup {el}],
                           LAMBDA w2 : startElementPolling(w2, el)))

\* el.querySelectorAll('*').forEach(...) of attach
attachEach(w0, children) ==
    Bind(w0, LAMBDA w :
        IF children = <<>> \/ w.thrown THEN w
        ELSE attachEach(IF hasAnyVariablurCSS(Head(children))
                           /\ Head(children) \notin w.attachedElements
                        THEN attach(w, Head(children)) ELSE w,
                        Tail(children)))

\* attach that looks at the children only of an element it has just attached.
attach_ChildrenOnlyWhenNew(w, el) ==
    IF el \in w.attachedElements THEN w
    ELSE Bind(attachSelf(w, el), LAMBDA w1 :
            IF w1.thrown THEN w1 ELSE attachEach(w1, querySelectorAll(el)))

attach(w, el) ==
    Bind(attachSelf(w, el), LAMBDA w1 :
        IF w1.thrown THEN w1 ELSE attachEach(w1, querySelectorAll(el)))

\* detach that leaves el in attachedElementsList.
detach_KeepsListEntry(w, el) ==
    IF el \in w.attachedElements
    THEN Bind([w EXCEPT !.attachedElements = @ \ {el},
                        !.resizeObservers = @ \ {el}],
              LAMBDA w1 : stopElementPolling(w1, el))
    ELSE w

detach(w, el) ==
    IF el \in w.attachedElements
    THEN Bind([w EXCEPT !.attachedElements = @ \ {el},
                        !.attachedElementsList = SelectSeq(@, LAMBDA e : e # el),
                        !.resizeObservers = @ \ {el}],
              LAMBDA w1 : stopElementPolling(w1, el))
    ELSE w

\* One callback c of the frame: skipped when it was cancelled meanwhile; an
\* exception it throws is reported and goes no further.
runCallback(w, c) ==
    IF \A i \in DOMAIN w.frames : w.frames[i] # c THEN w
    ELSE Bind(cancelAnimationFrame(w, c.handle), LAMBDA w1 :
            [(IF c.fn = "pollCSSVariables" THEN pollCSSVariables(w1)
              ELSE pollElementCSSVariables(w1, c.el)) EXCEPT !.thrown = FALSE])

\* The browser runs the callbacks that were pending when the frame began, in
\* request order.
RECURSIVE runCallbacks(_, _)
runCallbacks(w0, list) ==
    Bind(w0, LAMBDA w :
        IF list = <<>> THEN w
        ELSE runCallbacks(runCallback(w, Head(list)), Tail(list)))

\* The variables after a handler that leaves the state w.
Becomes(w) ==
    /\ attachedElements' = w.attachedElements
    /\ attachedElementsList' = w.attachedElementsList
    /\ resizeObservers' = w.resizeObservers
    /\ lastCSSVars' = w.lastCSSVars
    /\ pollingActive' = w.pollingActive
    /\ pollingHandle' = w.pollingHandle
    /\ elementPollingHandles' = w.elementPollingHandles
    /\ globalPollingActive' = w.globalPollingActive
    /\ frames' = w.frames
    /\ called' = w.called

Step(op, el, w) == [op |-> op, el |-> el, thrown |-> w.thrown]

\* The elements the page's script works with in the polling specifications.
PolledElements == {1, 2}

GlobalFrames(fs) == {i \in DOMAIN fs : fs[i].fn = "pollCSSVariables"}

\* The module has just been loaded into a document without variablur CSS:
\* attachExistingElements found nothing and startPolling() requested the
\* first frame.
InitPoll ==
    /\ css = [el \in DomElements |-> ""]
    /\ attachedElements = {}
    /\ attachedElementsList = <<>>
    /\ resizeObservers = {}
    /\ lastCSSVars = [el \in DomElements |-> "unset"]
    /\ pollingActive = TRUE
    /\ pollingHandle = 1
    /\ elementPollingHandles = [el \in DomElements |-> 0]
    /\ globalPollingActive = TRUE
    /\ frames = <<[handle |-> 1, fn |-> "pollCSSVariables", el |-> NoElement]>>
    /\ called = <<>>
    /\ lastStep = [op |-> "load", el |-> NoElement, thrown |-> FALSE]

IdlePoll == InitPoll

\* As InitPoll, with any CSS declared since, and with global polling either
\* still active or stopped by stopPolling().
InitAttach ==
    /\ css \in [DomElements -> CssValues]
    /\ attachedElements = {}
    /\ attachedElementsList = <<>>
    /\ resizeObservers = {}
    /\ lastCSSVars = [el \in DomElements |-> "unset"]
    /\ pollingActive \in BOOLEAN
    /\ globalPollingActive = pollingActive
    /\ pollingHandle = IF pollingActive THEN 1 ELSE 0
    /\ elementPollingHandles = [el \in DomElements |-> 0]
    /\ frames = IF pollingActive
                THEN <<[handle |-> 1, fn |-> "pollCSSVariables", el |-> NoElement]>>
                ELSE <<>>
    /\ called = <<>>
    /\ lastStep = [op |-> "load", el |-> NoElement, thrown |-> FALSE]

\* The page's script or style sheet changes what el declares.
SetCss(el, val) ==
    /\ css[el] # val
    /\ css' = [css EXCEPT ![el] = val]
    /\ called' = <<>>
    /\ lastStep' = [op |-> "setCss", el |-> el, thrown |-> FALSE]
    /\ UNCHANGED <<registryVars, pollingVars, blurVars, maskVars, editorVars, glassVars>>

Attach(el) ==
    /\ \E w \in {attach(World, el)} :
          Becomes(w) /\ lastStep' = Step("attach", el, w)
    /\ UNCHANGED <<css, blurVars, maskVars, editorVars, glassVars>>

Detach(el) ==
    /\ \E w \in {detach(World, el)} :
          Becomes(w) /\ lastStep' = Step("detach", el, w)
    /\ UNCHANGED <<css, blurVars, maskVars, editorVars, glassVars>>

StartPolling ==
    /\ Cardinality(GlobalFrames(frames)) < MaxPollLoops
    /\ \E w \in {startPolling(World)} :
          Becomes(w) /\ lastStep' = Step("startPolling", NoElement, w)
    /\ UNCHANGED <<css, blurVars, maskVars, editorVars, glassVars>>

StopPolling ==
    /\ \E w \in {stopPolling(World)} :
          Becomes(w) /\ lastStep' = Step("stopPolling", NoElement, w)
    /\ UNCHANGED <<css, blurVars, maskVars, editorVars, glassVars>>

\* The ResizeObserver of el delivers: () => update(el)
Resize(el) ==
    /\ el \in resizeObservers
    /\ \E w \in {update(World, el)} :
          Becomes(w) /\ lastStep' = Step("resize", el, w)
    /\ UNCHANGED <<css, blurVars, maskVars, editorVars, glassVars>>

AnimationFrame ==
    /\ frames # <<>>
    /\ \E w \in {runCallbacks(World, frames)} :
          Becomes(w) /\ lastStep' = Step("frame", NoElement, w)
    /\ UNCHANGED <<css, blurVars, maskVars, editorVars, glassVars>>

NextAttach ==
    \/ \E el \in DomElements : Attach(el)
    \/ \E el \in DomElements : Detach(el)

NextPoll ==
    \/ \E el \in PolledElements, val \in CssValues : SetCss(el, val)
    \/ \E el \in PolledElements : Attach(el)
    \/ \E el \in PolledElements : Detach(el)
    \/ \E el \in PolledElements : Resize(el)
    \/ StartPolling
    \/ StopPolling
    \/ AnimationFrame

(***************************************************************************)
(* The backdrop container and the glass filter of one element el, as far   *)
(* as update, createGlassSVGFilter and detach work on the container's      *)
(* child nodes and on blob URLs.  A div node is a layer; an svg node       *)
(* carries the id of its filter and the blob URL its feImage references.   *)
(* The filter id is made of the element's uid and its size, so the size    *)
(* stands for it.  convertToBlob resolves in a task of its own, so the     *)
(* rest of createGlassSVGFilter and the then-callback of update run        *)
(* together, with no other code in between.                                *)
(***************************************************************************)
DivNode == [kind |-> "div", styledAs |-> "none", filterId |-> 0, url |-> 0]
SvgNode(filterId, url) ==
    [kind |-> "svg", styledAs |-> "none", filterId |-> filterId, url |-> url]

GlassStyles ==
    [layers : 1..MaxDomLayers, refraction : BOOLEAN, size : 1..MaxElementSize]

NoBlobUrls == [present |-> FALSE, urls |-> <<>>]

Glass ==
    [glassAttached |-> glassAttached, containers |-> containers,
     backdrop |-> backdrop, shownLayers |-> shownLayers,
     elementBlobUrls |-> elementBlobUrls,
     variablurCleanupCallbacks |-> variablurCleanupCallbacks,
     revokedUrls |-> revokedUrls, blobCount |-> blobCount,
     pendingFilters |-> pendingFilters]

SeqRange(seq) == {seq[i] : i \in DOMAIN seq}

RemoveAt(seq, k) == [i \in 1..(Len(seq) - 1) |-> IF i < k THEN seq[i] ELSE seq[i + 1]]

\* container.querySelector('svg[data-variablur-svg]'): the position of the
\* first svg node, 0 when there is none
existingSvg(nodes) ==
    IF \E k \in DOMAIN nodes : nodes[k].kind = "svg"
    THEN CHOOSE k \in DOMAIN nodes :
            nodes[k].kind = "svg" /\ \A j \in 1..(k - 1) : nodes[j].kind # "svg"
    ELSE 0

\* blobUrls.forEach(url => URL.revokeObjectURL(url)) on the element's entry
revokeBlobUrls(g) ==
    IF g.elementBlobUrls.present
    THEN [g EXCEPT !.revokedUrls = @ \cup SeqRange(g.elementBlobUrls.urls)]
    ELSE g

\* The else branch of update's glass handling: the svg is removed, and the
\* URLs are revoked and the entry deleted.
removeGlassFilter(g) ==
    LET k == existingSvg(g.containers[g.backdrop])
    IN  IF k = 0 THEN g
        ELSE [revokeBlobUrls(g) EXCEPT
                 !.elementBlobUrls =
                     IF @.present THEN NoBlobUrls ELSE @,
                 !.containers[g.backdrop] = RemoveAt(@, k)]

\* update(el) for the style read: the container is created when missing,
\* childNodes are cut or filled to layers + 1, every child is styled by its
\* position, and the top position starts a glass filter or removes it.
updateBackdrop(g, style) ==
    LET g1 == IF g.backdrop = 0
              THEN [g EXCEPT !.containers = Append(@, <<>>),
                             !.backdrop = Len(g.containers) + 1]
              ELSE g
        layers == style.layers
        old == g1.containers[g1.backdrop]
        kept == IF Len(old) > layers + 1 THEN SubSeq(old, 1, layers + 1) ELSE old
        sized == kept \o [k \in 1..(layers + 1 - Len(kept)) |-> DivNode]
        styled == [k \in 1..(layers + 1) |->
                     [sized[k] EXCEPT !.styledAs =
                         IF k - 1 = layers THEN "top" ELSE "blur"]]
        g2 == [g1 EXCEPT !.containers[g1.backdrop] = styled,
                         !.shownLayers = layers]
    IN  IF style.refraction
        THEN [g2 EXCEPT !.pendingFilters =
                 Append(@, [container |-> g1.backdrop, filterId |-> style.size])]
        ELSE removeGlassFilter(g2)

\* createGlassSVGFilter after convertToBlob: the URL is created and stored,
\* its cleanup callback is added and the callbacks added before it are run
\* and dropped.
blobCreated(g) ==
    LET dataURL == g.blobCount + 1
        previous == SeqRange(g.variablurCleanupCallbacks)
        blobUrls == (IF g.elementBlobUrls.present THEN g.elementBlobUrls.urls
                     ELSE <<>>) \o <<dataURL>>
    IN  [g EXCEPT !.blobCount = dataURL,
                  !.revokedUrls = @ \cup previous,
                  !.elementBlobUrls =
                      [present |-> TRUE,
                       urls |-> SelectSeq(blobUrls, LAMBDA u : u \notin previous)],
                  !.variablurCleanupCallbacks = <<dataURL>>]

\* The then-callback of update for the filter (filterId, dataURL), on the
\* container the update had in hand.
filterInstalled(g, container, filterId, dataURL) ==
    LET nodes == g.containers[container]
        k == existingSvg(nodes)
    IN  IF \E j \in DOMAIN nodes : nodes[j].kind = "svg" /\ nodes[j].filterId = filterId
        THEN g
        ELSE IF k = 0
        THEN [g EXCEPT !.containers[container] = Append(@, SvgNode(filterId, dataURL))]
        ELSE [revokeBlobUrls(g) EXCEPT
                 !.containers[container] =
                     Append(RemoveAt(@, k), SvgNode(filterId, dataURL))]

\* The pending createGlassSVGFilter call number k resolves.
filterResolved(g, k) ==
    LET task == g.pendingFilters[k]
        g1 == blobCreated([g EXCEPT !.pendingFilters = RemoveAt(@, k)])
    IN  filterInstalled(g1, task.container, task.filterId, g1.blobCount)

\* detach(el), for an attached el: the URLs are revoked and the entry
\* deleted, and the container is removed from el.
detachBackdrop(g) ==
    [revokeBlobUrls(g) EXCEPT !.elementBlobUrls = NoBlobUrls,
                              !.backdrop = 0,
                              !.glassAttached = FALSE]

GlassBecomes(g) ==
    /\ glassAttached' = g.glassAttached
    /\ containers' = g.containers
    /\ backdrop' = g.backdrop
    /\ shownLayers' = g.shownLayers
    /\ elementBlobUrls' = g.elementBlobUrls
    /\ variablurCleanupCallbacks' = g.variablurCleanupCallbacks
    /\ revokedUrls' = g.revokedUrls
    /\ blobCount' = g.blobCount
    /\ pendingFilters' = g.pendingFilters

InitGlass ==
    /\ glassStyle = [layers |-> 1, refraction |-> FALSE, size |-> 1]
    /\ glassAttached = FALSE
    /\ containers = <<>>
    /\ backdrop = 0
    /\ shownLayers = 0
    /\ elementBlobUrls = NoBlobUrls
    /\ variablurCleanupCallbacks = <<>>
    /\ revokedUrls = {}
    /\ blobCount = 0
    /\ pendingFilters = <<>>

\* The page changes --variablur-layers, --variablur-glass-refraction or the
\* element's size.
SetGlassStyle ==
    /\ \E style \in GlassStyles : style # glassStyle /\ glassStyle' = style
    /\ UNCHANGED <<glassAttached, containers, backdrop, shownLayers, elementBlobUrls,
                   variablurCleanupCallbacks, revokedUrls, blobCount, pendingFilters>>
    /\ UNCHANGED <<blurVars, maskVars, editorVars, pollVars>>

\* update(el) may run when a container and a filter request are left.
CanUpdate ==
    /\ backdrop = 0 => Len(containers) < MaxContainers
    /\ glassStyle.refraction => blobCount + Len(pendingFilters) < MaxBlobUrls

\* attach(el) of an element that is not attached: update(el)
AttachGlass ==
    /\ ~glassAttached
    /\ CanUpdate
    /\ GlassBecomes(updateBackdrop([Glass EXCEPT !.glassAttached = TRUE], glassStyle))
    /\ UNCHANGED <<glassStyle, blurVars, maskVars, editorVars, pollVars>>

\* update(el) from a polling pass or from the ResizeObserver
UpdateGlass ==
    /\ glassAttached
    /\ CanUpdate
    /\ GlassBecomes(updateBackdrop(Glass, glassStyle))
    /\ UNCHANGED <<glassStyle, blurVars, maskVars, editorVars, pollVars>>

DetachGlass ==
    /\ glassAttached
    /\ GlassBecomes(detachBackdrop(Glass))
    /\ UNCHANGED <<glassStyle, blurVars, maskVars, editorVars, pollVars>>

\* convertToBlob of one of the pending calls resolves, in any order
GlassFilterResolves ==
    /\ \E k \in DOMAIN pendingFilters : GlassBecomes(filterResolved(Glass, k))
    /\ UNCHANGED <<glassStyle, blurVars, maskVars, editorVars, pollVars>>

NextGlass ==
    \/ SetGlassStyle
    \/ AttachGlass
    \/ UpdateGlass
    \/ DetachGlass
    \/ GlassFilterResolves

(***************************************************************************)
(* Specifications: each part of the program on its own, the others idle.   *)
(***************************************************************************)
InitBlurOnly == InitBlur /\ IdleMask /\ InitEditor /\ IdlePoll /\ InitGlass
SpecBlur == InitBlurOnly /\ [][NextBlur]_vars

InitMaskOnly == IdleBlur /\ InitMask /\ InitEditor /\ IdlePoll /\ InitGlass
SpecMask == InitMaskOnly /\ [][NextMask]_vars

InitEditorOnly == IdleBlur /\ IdleMask /\ InitEditor /\ IdlePoll /\ InitGlass
SpecEditor == InitEditorOnly /\ [][NextEditor]_vars

InitAttachOnly == IdleBlur /\ IdleMask /\ InitEditor /\ InitAttach /\ InitGlass
SpecAttach == InitAttachOnly /\ [][NextAttach]_vars

InitPollOnly == IdleBlur /\ IdleMask /\ InitEditor /\ InitPoll /\ InitGlass
SpecPoll == InitPollOnly /\ [][NextPoll]_vars

InitGlassOnly == IdleBlur /\ IdleMask /\ InitEditor /\ IdlePoll /\ InitGlass
SpecGlass == InitGlassOnly /\ [][NextGlass]_vars

\* Animation frames keep firing: the browser runs the pending callbacks.
SpecPollFair == SpecPoll /\ WF_vars(AnimationFrame)

Init == InitBlur /\ InitMask /\ InitEditor /\ InitAttach /\ InitGlass
Next == NextBlur \/ NextMask \/ NextEditor \/ NextPoll \/ NextAttach \/ NextGlass
Spec == Init /\ [][Next]_vars

(***************************************************************************)
(* Claims about the blur distribution.                                     *)
(***************************************************************************)
\* The sum of the squares p^2 / q of a sequence of values with a common q,
\* as its numerator over that q.
RECURSIVE SumSqNum(_)
SumSqNum(vs) ==
    IF vs = <<>> THEN 0 ELSE Head(vs).p * Head(vs).p + SumSqNum(Tail(vs))

C8_NonPositiveLayersThrow ==
    (blurRet.kind # "none" /\ blurArgs.layers <= 0) => blurRet.kind = "throw"

C8_Witness ==
    /\ blurRet.kind = "throw"
    /\ blurRet.fn = "calcBlurPerLayer"
    /\ blurArgs.layers = 0

(***************************************************************************)
(* Claims about the mask geometry.                                         *)
(***************************************************************************)
\* A stop percentage is a finite number within [0, 100].
StopInRange(x) == x.k = "fin" /\ 0 <= x.n /\ x.n <= 100 * x.d

\* The extent along the mask axis used by the call in maskRet.
MaskExtent ==
    LET dir == IF maskRet.fn = "update" THEN maskRet.value.direction
               ELSE toLowerCase(IF maskArgs.direction = "" THEN "bottom"
                                ELSE maskArgs.direction)
    IN  IF dir = "left" \/ dir = "right" THEN maskArgs.el.clientWidth
        ELSE maskArgs.el.clientHeight

\* C2: for every layer index, layer count n >= 1, direction, offset, element
\* extent and invert flag, the stops a, c, d of calculateMask lie within
\* [0, 100], including the calls update makes (n = layers + 1, invert).
\* Stated here for elements of positive extent; extent 0 is C10's case.
C2_StopsWithinRange ==
    (maskRet.kind = "return" /\ MaskExtent > 0) =>
        \A j \in 1..Len(maskRet.value.masks) :
            LET m == maskRet.value.masks[j] IN
            StopInRange(m.a) /\ StopInRange(m.c) /\ StopInRange(m.d)

\* C10: when the element's extent along the mask axis is 0, no error is
\* raised and the stops are finite numbers within [0, 100]; so is the
\* top-layer percentage scale * 100 computed in update.
C10_ZeroExtentStopsFinite ==
    (maskRet.kind # "none" /\ MaskExtent = 0) =>
        /\ maskRet.kind = "return"
        /\ \A j \in 1..Len(maskRet.value.masks) :
              LET m == maskRet.value.masks[j] IN
              StopInRange(m.a) /\ StopInRange(m.c) /\ StopInRange(m.d)
        /\ \A j \in 1..Len(maskRet.value.top) : StopInRange(maskRet.value.top[j])

\* x <= y and x = y for stop percentages; false when either is NaN.
StopLeq(x, y) == x.k # "nan" /\ y.k # "nan" /\ ~JLess(y, x)
StopEq(x, y) == StopLeq(x, y) /\ StopLeq(y, x)

\* C11: for every call of calculateMask the three stops are non-decreasing,
\* a <= c <= d, for every layer index, layer count, offset, extent and
\* invert flag.  Stated here for elements of positive extent.
C11_StopsNonDecreasing ==
    (maskRet.kind = "return" /\ MaskExtent > 0) =>
        \A j \in 1..Len(maskRet.value.masks) :
            LET m == maskRet.value.masks[j] IN
            StopLeq(m.a, m.c) /\ StopLeq(m.c, m.d)

\* The layer index, layer count and invert flag of the j-th calculateMask
\* call behind maskRet: update calls it with (j - 1, layers + 1, true).
MaskCallI(j) == IF maskRet.fn = "update" THEN j - 1 ELSE maskArgs.i
MaskCallN == IF maskRet.fn = "update" THEN maskArgs.layers + 1 ELSE maskArgs.n
MaskCallInvert == maskRet.fn = "update" \/ maskArgs.invert

\* clamp(k * step) with step = 100 / n, as a fraction over n
DefaultRamp(k, n) == Fin(Max(0, Min(100 * n, 100 * k)), n)

OffsetEqualsExtent ==
    maskRet.kind = "return" /\ MaskExtent > 0 /\ maskArgs.offset = MaskExtent

\* C12 as stated: whenever offset equals the element's extent along the mask
\* axis, the stops are the un-inset default ramp a = clamp((i-1)*step),
\* c = clamp((i+1)*step), d = clamp((i+2)*step), step = 100/n.
C12_DefaultRampAtFullOffset ==
    OffsetEqualsExtent =>
        \A j \in 1..Len(maskRet.value.masks) :
            LET m == maskRet.value.masks[j] IN
            /\ StopEq(m.a, DefaultRamp(MaskCallI(j) - 1, MaskCallN))
            /\ StopEq(m.c, DefaultRamp(MaskCallI(j) + 1, MaskCallN))
            /\ StopEq(m.d, DefaultRamp(MaskCallI(j) + 2, MaskCallN))

\* C12 amended: when offset equals a positive extent, calculateMask without
\* invert returns the un-inset default ramp (scale 1, shift 0); with invert,
\* as update calls it, scale is 0 and the three stops are all 100.
C12_FullOffsetByInvert ==
    OffsetEqualsExtent =>
        \A j \in 1..Len(maskRet.value.masks) :
            LET m == maskRet.value.masks[j] IN
            IF MaskCallInvert
            THEN StopEq(m.a, Num(100)) /\ StopEq(m.c, Num(100)) /\ StopEq(m.d, Num(100))
            ELSE /\ StopEq(m.a, DefaultRamp(MaskCallI(j) - 1, MaskCallN))
                 /\ StopEq(m.c, DefaultRamp(MaskCallI(j) + 1, MaskCallN))
                 /\ StopEq(m.d, DefaultRamp(MaskCallI(j) + 2, MaskCallN))

C12_Witness ==
    /\ OffsetEqualsExtent
    /\ maskRet.fn = "calculateMask"
    /\ ~maskArgs.invert
    /\ maskArgs.i = 1 /\ maskArgs.n = 3
    /\ maskArgs.offset = 2

\* C13: a missing or unrecognized direction is treated as bottom:
\* calculateMask emits the axis 'to bottom', update maps every
\* --variablur-direction outside {top, bottom, left, right} to bottom, and
\* the axis is always one of the four edge directions.
C13_UnknownDirectionIsBottom ==
    maskRet.kind = "return" =>
        /\ maskRet.fn = "update" =>
              maskRet.value.direction =
                  (IF maskArgs.direction \in {"top", "bottom", "left", "right"}
                   THEN maskArgs.direction ELSE "bottom")
        /\ \A j \in 1..Len(maskRet.value.masks) :
              LET axis == maskRet.value.masks[j].gradientDir IN
              /\ axis \in {"top", "bottom", "left", "right"}
              /\ maskArgs.direction \notin {"top", "bottom", "left", "right", "Left"}
                    => axis = "bottom"

(***************************************************************************)
(* Claims about the displacement buffer.                                   *)
(***************************************************************************)
Data == editor.imageData.data
Width == editor.imageData.width
Height == editor.imageData.height
R(x, y) == Data[4 * (y * Width + x)]
G(x, y) == Data[4 * (y * Width + x) + 1]
B(x, y) == Data[4 * (y * Width + x) + 2]
A(x, y) == Data[4 * (y * Width + x) + 3]

\* C3: after any sequence of addTransformation calls on a buffer created by
\* RefractionEditor, every channel of every pixel is an integer in [0, 255],
\* and values saturate, never wrap around: a call whose displacements are
\* both >= 0 lowers no byte, and one whose displacements are both <= 0
\* raises none.
ChannelsWithinByte ==
    editor.status = "constructed" =>
        \A i \in DOMAIN Data : Data[i] \in 0..255

AddSaturates ==
    (edCall'.fn = "addTransformation" /\ ncalls' = ncalls + 1) =>
        /\ DOMAIN editor'.imageData.data = DOMAIN Data
        /\ (edCall'.vx4 >= 0 /\ edCall'.vy4 >= 0) =>
              \A i \in DOMAIN Data : editor'.imageData.data[i] >= Data[i]
        /\ (edCall'.vx4 <= 0 /\ edCall'.vy4 <= 0) =>
              \A i \in DOMAIN Data : editor'.imageData.data[i] <= Data[i]

C3_ChannelsSaturate == []ChannelsWithinByte /\ [][AddSaturates]_vars

\* Two calls were made and both ends of the range were reached.
C3_Witness ==
    /\ editor.status = "constructed"
    /\ ncalls = 2
    /\ \E i \in DOMAIN Data : Data[i] = 0
    /\ \E i \in DOMAIN Data : Data[i] = 255 /\ i % 4 # 3

\* C7: a freshly created buffer of any positive size has R, G and B equal
\* to 127 and alpha equal to 255 in every pixel.
C7_FreshBufferNeutral ==
    (editor.status = "constructed" /\ edCall.fn = "RefractionEditor") =>
        /\ DOMAIN Data = 0..(4 * Width * Height - 1)
        /\ \A x \in 0..(Width - 1), y \in 0..(Height - 1) :
              R(x, y) = 127 /\ G(x, y) = 127 /\ B(x, y) = 127 /\ A(x, y) = 255

C7_Witness ==
    /\ editor.status = "constructed"
    /\ edCall.fn = "RefractionEditor"
    /\ editor.width = Small(3)
    /\ editor.height = Small(2)
    /\ Width = 3 /\ Height = 2

\* The editor holds the map calculateRefractionMap returned for a positive
\* width and height.
MapReturned ==
    /\ editor.status = "constructed"
    /\ edCall.fn \in {"calculateRefractionMap", "createGlassSVGFilter"}
    /\ IsPositive(editor.width) /\ IsPositive(editor.height)

\* C4: the map confines displacement to edge strips of thickness offset:
\* every pixel farther than offset pixels from all four edges keeps the
\* neutral value in both displacement channels.
C4_CentreStaysNeutral ==
    (MapReturned /\ edCall.fn = "createGlassSVGFilter") =>
        \A x \in 0..(Width - 1), y \in 0..(Height - 1) :
            (/\ edCall.glassOffset <= x /\ x < Width - edCall.glassOffset
             /\ edCall.glassOffset <= y /\ y < Height - edCall.glassOffset)
                => (R(x, y) = 127 /\ B(x, y) = 127)

\* C5: for every positive width and height and refraction > 0, every pixel
\* of the top strip (y < height / 2) has B above neutral, of the bottom strip
\* B below neutral, of the left strip (x < width / 2) R above neutral and of
\* the right strip R below neutral.
C5_EdgesConsistentSign ==
    (MapReturned /\ edCall.refraction2 > 0) =>
        \A x \in 0..(Width - 1), y \in 0..(Height - 1) :
            /\ 2 * y < Height => B(x, y) > 127
            /\ 2 * y >= Height => B(x, y) < 127
            /\ 2 * x < Width => R(x, y) > 127
            /\ 2 * x >= Width => R(x, y) < 127

\* C6: refraction 1.0 is neutral: calculateRefractionMap with refraction 1.0
\* leaves the displacement channels of every pixel at 127.
C6_RefractionOneNeutral ==
    (MapReturned /\ edCall.refraction2 = 2) =>
        \A x \in 0..(Width - 1), y \in 0..(Height - 1) :
            R(x, y) = 127 /\ B(x, y) = 127

\* C9: with width <= 0 or height <= 0 neither the RefractionEditor
\* constructor nor calculateRefractionMap returns a buffer: the call fails
\* with an error.
C9_NonPositiveSizeThrows ==
    (edCall.fn # "none" /\ (~IsPositive(editor.width) \/ ~IsPositive(editor.height)))
        => editor.status = "throw"

\* The data addTransformation leaves when called with the arguments held in
\* the call record t on a buffer of the editor's size holding data d.
Applied(t, d) ==
    transformLoop([editor.imageData EXCEPT !.data = d],
                  LoopPixels(t.dx2, t.dy2, t.dw2, t.dh2), t.vx4, t.vy4,
                  t.direction, t.dx2, t.dy2, t.dw2, t.dh2, t.easing)

\* No displacement or unused channel of d is at a clamp bound.
Unsaturated(d) == \A i \in DOMAIN d : i % 4 = 3 \/ d[i] \in 1..254

FreshData == [i \in DOMAIN Data |-> IF i % 4 = 3 THEN 255 ELSE 127]

\* C18: addTransformation is additive and order-independent absent
\* saturation: when a call T2 follows a call T1 and no channel is at 0 or
\* 255 at any step, the buffer is the one T2 then T1 would have left, and
\* every byte is its value before T1 plus the rounded contributions of T1 and
\* of T2 (each read off a neutral buffer).
AddCommutes ==
    LET after == editor'.imageData.data
        other == Applied(edCall', edPrev)
        first == Applied(edCall, FreshData)
        second == Applied(edCall', FreshData)
    IN  (/\ edCall.fn = "addTransformation" /\ edCall'.fn = "addTransformation"
         /\ ncalls' = ncalls + 1
         /\ Unsaturated(edPrev) /\ Unsaturated(Data) /\ Unsaturated(after)
         /\ Unsaturated(other) /\ Unsaturated(first) /\ Unsaturated(second))
            => /\ after = Applied(edCall, other)
               /\ \A i \in DOMAIN Data :
                     after[i] = edPrev[i] + (first[i] - FreshData[i])
                                          + (second[i] - FreshData[i])

C18_AdditiveOrderIndependent == [][AddCommutes]_vars

\* Two calls were made, nothing is saturated and some byte was changed by
\* both.
C18_Witness ==
    /\ editor.status = "constructed"
    /\ ncalls = 2
    /\ Unsaturated(Data) /\ Unsaturated(edPrev)
    /\ \E i \in DOMAIN Data : edPrev[i] # 127 /\ Data[i] # edPrev[i]

\* C19: addTransformation changes only the R and B channels of pixels inside
\* the target rectangle intersected with the buffer: G and alpha of every
\* pixel and all channels of every pixel outside the rectangle are
\* unchanged, and the buffer keeps its size.
AddStaysInRectangle ==
    (edCall'.fn = "addTransformation" /\ ncalls' = ncalls + 1) =>
        /\ DOMAIN editor'.imageData.data = DOMAIN Data
        /\ \A x \in 0..(Width - 1), y \in 0..(Height - 1) :
              LET p == 4 * (y * Width + x)
                  inside == /\ edCall'.dx2 <= 2 * x
                            /\ 2 * x < edCall'.dx2 + edCall'.dw2
                            /\ edCall'.dy2 <= 2 * y
                            /\ 2 * y < edCall'.dy2 + edCall'.dh2
              IN  /\ editor'.imageData.data[p + 1] = Data[p + 1]
                  /\ editor'.imageData.data[p + 3] = Data[p + 3]
                  /\ ~inside => /\ editor'.imageData.data[p] = Data[p]
                                /\ editor'.imageData.data[p + 2] = Data[p + 2]

C19_OnlyRectangleRB == [][AddStaysInRectangle]_vars

\* The gradient position addTransformation computes for the pixel (x2, y2)
\* of the last call's rectangle, as a fraction.
CallGradient(x2, y2) ==
    gradientSegment(edCall.direction, x2, y2, edCall.dx2, edCall.dy2,
                    edCall.dw2, edCall.dh2)

\* The last call was an addTransformation on a rectangle of whole pixels
\* that lies within the buffer.
WholeRectangleCall ==
    /\ edCall.fn = "addTransformation"
    /\ edCall.dx2 % 2 = 0 /\ edCall.dy2 % 2 = 0
    /\ edCall.dw2 % 2 = 0 /\ edCall.dh2 % 2 = 0
    /\ edCall.dx2 >= 0 /\ edCall.dy2 >= 0
    /\ edCall.dx2 + edCall.dw2 <= 2 * Width
    /\ edCall.dy2 + edCall.dh2 <= 2 * Height

\* C20: for every direction the gradient position of a pixel of the
\* rectangle lies in [0, 1], is monotone along the direction's axis (down:
\* increasing with y; up/top: decreasing with y; right: increasing with x;
\* left: decreasing with x) and is 0 on the rectangle's far edge row/column
\* and 1 on its near edge row/column.  Stated for the four named directions.
C20_GradientSpansUnit ==
    (WholeRectangleCall /\ edCall.direction \in {"down", "top", "left", "right"}) =>
        LET x0 == edCall.dx2
            y0 == edCall.dy2
            x1 == edCall.dx2 + edCall.dw2 - 2
            y1 == edCall.dy2 + edCall.dh2 - 2
            g(x2, y2) == CallGradient(x2, y2)
            Leq(a, b) == a.n * b.d <= b.n * a.d
            IsZeroG(a) == a.n = 0
            IsOneG(a) == a.n = a.d
        IN  /\ \A px \in {LoopPixels(x0, y0, edCall.dw2, edCall.dh2)[k] :
                               k \in 1..Len(LoopPixels(x0, y0, edCall.dw2, edCall.dh2))} :
                  /\ 0 <= g(px.x2, px.y2).n
                  /\ g(px.x2, px.y2).n <= g(px.x2, px.y2).d
                  /\ (edCall.direction = "down" /\ px.y2 < y1)
                        => Leq(g(px.x2, px.y2), g(px.x2, px.y2 + 2))
                  /\ (edCall.direction = "top" /\ px.y2 < y1)
                        => Leq(g(px.x2, px.y2 + 2), g(px.x2, px.y2))
                  /\ (edCall.direction = "right" /\ px.x2 < x1)
                        => Leq(g(px.x2, px.y2), g(px.x2 + 2, px.y2))
                  /\ (edCall.direction = "left" /\ px.x2 < x1)
                        => Leq(g(px.x2 + 2, px.y2), g(px.x2, px.y2))
            /\ edCall.direction = "down" => IsZeroG(g(x0, y0)) /\ IsOneG(g(x0, y1))
            /\ edCall.direction = "top" => IsOneG(g(x0, y0)) /\ IsZeroG(g(x0, y1))
            /\ edCall.direction = "right" => IsZeroG(g(x0, y0)) /\ IsOneG(g(x1, y0))
            /\ edCall.direction = "left" => IsOneG(g(x0, y0)) /\ IsZeroG(g(x1, y0))

\* The four addTransformation calls of calculateRefractionMap on a width x
\* height buffer, in the order they are made.
Strips ==
    LET r == edCall.refraction2
    IN  <<[vx4 |-> 0, vy4 |-> r, direction |-> "top",
           dx2 |-> 0, dy2 |-> 0, dw2 |-> 2 * Width, dh2 |-> Height],
          [vx4 |-> 0, vy4 |-> -r, direction |-> "bottom",
           dx2 |-> 0, dy2 |-> 2 * Height - Height, dw2 |-> 2 * Width, dh2 |-> Height],
          [vx4 |-> r, vy4 |-> 0, direction |-> "left",
           dx2 |-> 0, dy2 |-> 0, dw2 |-> Width, dh2 |-> 2 * Height],
          [vx4 |-> -r, vy4 |-> 0, direction |-> "right",
           dx2 |-> 2 * Width - Width, dy2 |-> 0, dw2 |-> Width, dh2 |-> 2 * Height]>>

\* What one pass of the loop body of call s on pixel px adds to byte i,
\* before clamping: Math.round(k + c) = k + Math.round(c) for a byte k.
PassAdds(s, px, i) ==
    IF \/ px.x2 < 0 \/ px.y2 < 0 \/ px.x2 >= 2 * Width \/ px.y2 >= 2 * Height
    THEN 0
    ELSE LET e == ease("linear", gradientSegment(s.direction, px.x2, px.y2,
                                                 s.dx2, s.dy2, s.dw2, s.dh2))
             pixelIndex == 2 * (px.y2 * Width + px.x2)
         IN  (IF pixelIndex = i THEN Round(127 * s.vx4 * e.n, 4 * e.d) ELSE 0)
               + (IF pixelIndex + 2 = i THEN Round(127 * s.vy4 * e.n, 4 * e.d) ELSE 0)

RECURSIVE SumPasses(_, _, _)
SumPasses(s, pixels, i) ==
    IF pixels = <<>> THEN 0
    ELSE PassAdds(s, Head(pixels), i) + SumPasses(s, Tail(pixels), i)

\* The unclamped contribution of call s to byte i.
StripAdds(s, i) == SumPasses(s, LoopPixels(s.dx2, s.dy2, s.dw2, s.dh2), i)

\* C21: for every refraction in [0, 2] and every width and height the map
\* is built without clamping: every R and B byte of the result is 127 plus
\* the rounded unclamped contributions of the strips written to it, so the
\* order of the four calls does not matter.
C21_MapNeverClamps ==
    MapReturned =>
        \A i \in DOMAIN Data :
            i % 4 \in {0, 2} =>
                Data[i] = 127 + StripAdds(Strips[1], i) + StripAdds(Strips[2], i)
                              + StripAdds(Strips[3], i) + StripAdds(Strips[4], i)

\* C30: the map returned by calculateRefractionMap is mirror-antisymmetric:
\* the deviation of B from 127 at (x, y) is the negation of the deviation at
\* (x, height - 1 - y), and the deviation of R at (x, y) the negation of the
\* deviation at (width - 1 - x, y).
C30_MapMirrorAntisymmetric ==
    MapReturned =>
        \A x \in 0..(Width - 1), y \in 0..(Height - 1) :
            /\ B(x, y) - 127 = -(B(x, Height - 1 - y) - 127)
            /\ R(x, y) - 127 = -(R(Width - 1 - x, y) - 127)

\* C22: for every pixel of the buffer that is not in a rounded-corner
\* region, getBorderNormalAndDistance returns the axis-aligned outward unit
\* normal of the nearest straight edge and the distance to that edge, for
\* every radius, 0 included, and also for pixels at least the radius away
\* from the edge.
C22_StraightEdgeNormal ==
    (edCall.fn = "getBorderNormalAndDistance" /\ ~edRet.isCorner) =>
        LET w == Val(editor.width)
            h == Val(editor.height)
            x == edCall.x
            y == edCall.y
            minDist == Min(Min(x, y), Min(w - 1 - x, h - 1 - y))
            n == <<edRet.normal.x, edRet.normal.y>>
        IN  /\ edRet.distToBorder = [a2 |-> 2 * minDist, root |-> 0]
            /\ edRet.normal.root = 1
            /\ \/ n = <<0, -1>> /\ y = minDist
               \/ n = <<0, 1>> /\ h - 1 - y = minDist
               \/ n = <<-1, 0>> /\ x = minDist
               \/ n = <<1, 0>> /\ w - 1 - x = minDist

\* The border record of pixel (x, y) of the editor.
BorderAt(x, y) == getBorderNormalAndDistance(editor, x, y)

\* distToBorder >= borderWidth
AtLeastBorderWidth(dist) == LeqRoot(1, dist.root, dist.a2 - 2 * edCall.borderWidth)

\* 0 <= t <= 1 for t = (n + e * sqrt(root)) / d
WithinUnit(t, root) ==
    /\ LeqRoot(-t.e, root, t.n)
    /\ LeqRoot(t.e, root, t.d - t.n)

\* C23: applyBorderRadiusRefraction fades to zero at borderWidth: for every
\* borderWidth >= 0 a pixel whose border distance is >= borderWidth keeps
\* its R and B, the attenuation t lies in [0, 1] and every channel stays in
\* [0, 255].
C23_FadesToZeroAtBorderWidth ==
    (edCall.fn = "applyBorderRadiusRefraction" /\ editor.status = "constructed") =>
        /\ \A i \in DOMAIN Data : Data[i] \in 0..255
        /\ \A x \in 0..(Width - 1), y \in 0..(Height - 1) :
              /\ WithinUnit(attenuation(BorderAt(x, y).distToBorder, edCall.borderWidth),
                            BorderAt(x, y).distToBorder.root)
              /\ AtLeastBorderWidth(BorderAt(x, y).distToBorder)
                    => (R(x, y) = 127 /\ B(x, y) = 127)

(***************************************************************************)
(* Claims about attachment and polling.                                    *)
(***************************************************************************)
NoDuplicates(seq) == \A i, j \in DOMAIN seq : seq[i] = seq[j] => i = j

\* C14: after attach(el) returns, el is attached and so is every descendant
\* of el for which hasAnyVariablurCSS is true, also when el was attached
\* before the call; the descent ends with each element attached at most
\* once.
C14_AttachCoversDescendants ==
    (lastStep.op = "attach" /\ ~lastStep.thrown) =>
        /\ lastStep.el \in attachedElements
        /\ \A k \in DOMAIN querySelectorAll(lastStep.el) :
              hasAnyVariablurCSS(querySelectorAll(lastStep.el)[k])
                  => querySelectorAll(lastStep.el)[k] \in attachedElements
        /\ NoDuplicates(attachedElementsList)
        /\ NoDuplicates(called)

\* attach(1) returned; 1 had been attached before, and the call attached
\* its child 2 and, from there, 3.
C14_Witness ==
    /\ lastStep = [op |-> "attach", el |-> 1, thrown |-> FALSE]
    /\ called = <<2, 3>>
    /\ attachedElements = {1, 2, 3}

\* C15: after detach(el) no animation-frame poll, global or per-element, and
\* no resize callback calls update(el) until el is attached again: such a
\* step calls update only for elements that are attached when it begins.
AutoUpdatesOnlyAttached ==
    lastStep'.op \in {"frame", "resize"} =>
        \A i \in DOMAIN called' : called'[i] \in attachedElements

C15_DetachStopsUpdates == [][AutoUpdatesOnlyAttached]_vars

\* A frame ran and updated an element while another one, polled earlier and
\* detached since, had a change pending and was left alone.
C15_Witness ==
    /\ lastStep.op = "frame"
    /\ called # <<>>
    /\ \E el \in PolledElements :
          /\ el \notin attachedElements
          /\ lastCSSVars[el] \notin {"unset", getComputedStyle(el)}
          /\ \A i \in DOMAIN called : called[i] # el

\* C16: after stopPolling() returns, pollCSSVariables does not run again
\* until startPolling() is called: a frame runs a pollCSSVariables callback
\* only while pollingActive is set.
GlobalPollOnlyWhileActive ==
    (lastStep'.op = "frame" /\ GlobalFrames(frames) # {}) => pollingActive

C16_StopPollingStopsLoop == [][GlobalPollOnlyWhileActive]_vars

\* el is attached and its variables differ from the snapshot stored for it.
Stale(el) == el \in attachedElements /\ lastCSSVars[el] # getComputedStyle(el)

\* C17: while el stays attached and polling is not stopped, every change of
\* its variables is eventually followed by update(el).  Stated for the
\* global loop: a change pending on an attached element while pollingActive
\* is set leads to the change being taken up (update(el) called, the
\* snapshot renewed), or el detached, or polling stopped.
C17_ChangesEventuallyUpdated ==
    \A el \in PolledElements :
        (Stale(el) /\ pollingActive) ~> (~Stale(el) \/ ~pollingActive)

\* The pending per-element polling callbacks of el.
ElementFrames(fs, el) ==
    {i \in DOMAIN fs : fs[i].fn = "pollElementCSSVariables" /\ fs[i].el = el}

\* While global polling is active no attached element has a per-element
\* polling frame scheduled.
NoElementFrameWhileGlobal ==
    globalPollingActive =>
        \A el \in attachedElements : ElementFrames(frames, el) = {}

\* No animation frame polls an attached element from both loops: no frame
\* begins with a pollCSSVariables callback and a per-element callback of an
\* attached element pending together.
FramePollsFromOneLoop ==
    lastStep'.op = "frame" =>
        \A el \in attachedElements :
            GlobalFrames(frames) = {} \/ ElementFrames(frames, el) = {}

\* C27: global and per-element polling are mutually exclusive, for every
\* sequence of attach, detach, startPolling and stopPolling calls and
\* animation frames.
C27_PollingLoopsExclusive ==
    []NoElementFrameWhileGlobal /\ [][FramePollsFromOneLoop]_vars

Range(seq) == {seq[i] : i \in DOMAIN seq}

\* C28: after any sequence of attach and detach calls, calls in which update
\* throws included, attachedElements and attachedElementsList hold the same
\* elements and an element has a ResizeObserver if and only if it is
\* attached.
RegistriesAgree ==
    /\ Range(attachedElementsList) = attachedElements
    /\ NoDuplicates(attachedElementsList)
    /\ resizeObservers = attachedElements

\* Attaching an attached element makes no second observer (no update(el),
\* which precedes new ResizeObserver), and detaching an element that is not
\* attached changes nothing.
RepeatedCallsChangeNothing ==
    /\ (lastStep'.op = "attach" /\ lastStep'.el \in attachedElements)
          => (lastStep'.el \notin Range(called')
              /\ (lastStep'.el \in resizeObservers') = (lastStep'.el \in resizeObservers))
    /\ (lastStep'.op = "detach" /\ lastStep'.el \notin attachedElements)
          => UNCHANGED <<registryVars, pollingVars>>

C28_RegistriesConsistent ==
    []RegistriesAgree /\ [][RepeatedCallsChangeNothing]_vars

\* A polling pass of the frame that begins looks at el.
PassPolls(el) ==
    /\ el \in attachedElements
    /\ GlobalFrames(frames) # {} \/ ElementFrames(frames, el) # {}

\* C29: a polling pass calls update(el) for an attached element if and only
\* if its variables differ from the snapshot stored for it (a missing
\* snapshot counts as different), and after the pass the snapshot equals the
\* current values.
PassUpdatesExactlyChanged ==
    lastStep'.op = "frame" =>
        \A el \in DomElements :
            PassPolls(el) =>
                /\ (el \in Range(called')) = (lastCSSVars[el] # getComputedStyle(el))
                /\ lastCSSVars'[el] = getComputedStyle(el)

C29_PollUpdatesExactlyChanged == [][PassUpdatesExactlyChanged]_vars

(***************************************************************************)
(* Claims about the backdrop container and the glass filter.               *)
(***************************************************************************)
BlobUrls == 1..blobCount

\* At most the most recently created blob URL is unrevoked.
OnlyNewestUnrevoked == \A u \in BlobUrls : u < blobCount => u \in revokedUrls

\* After detach(el), once every pending createGlassSVGFilter promise has
\* settled, every URL created for el is revoked and el has no entry.
DetachedIsClean ==
    (~glassAttached /\ pendingFilters = <<>>) =>
        (BlobUrls \subseteq revokedUrls /\ ~elementBlobUrls.present)

\* C24: blob URLs are cleaned up when a filter is regenerated or the
\* element is detached: at most the newest URL of the element is unrevoked,
\* and after detach(el), with every pending promise settled, every URL ever
\* created for el is revoked and elementBlobUrls has no entry for el.
C24_BlobUrlsCleanedUp == OnlyNewestUnrevoked /\ DetachedIsClean

\* The child nodes of the element's backdrop container.
Children == IF backdrop = 0 THEN <<>> ELSE containers[backdrop]

\* C25: whenever an SVG glass filter is installed in the element's backdrop
\* container, the blob URL its feImage references has not been revoked,
\* for every interleaving of overlapping update(el) calls whose
\* continuations resolve in any order, with equal or different sizes.
C25_InstalledFilterUrlLive ==
    \A k \in DOMAIN Children :
        Children[k].kind = "svg" => Children[k].url \notin revokedUrls

\* C26: after every update(el) and after its continuation has appended the
\* svg element, across updates in which --variablur-layers goes up or down,
\* the container holds exactly layers blur layers followed by one top layer,
\* and the svg element is not counted as, placed among or styled as a layer.
C26_LayersThenTopLayer ==
    backdrop # 0 =>
        /\ \A k \in 1..shownLayers :
              k \in DOMAIN Children
                 /\ Children[k].kind = "div" /\ Children[k].styledAs = "blur"
        /\ shownLayers + 1 \in DOMAIN Children
        /\ Children[shownLayers + 1].kind = "div"
        /\ Children[shownLayers + 1].styledAs = "top"
        /\ \A k \in DOMAIN Children :
              k > shownLayers + 1 =>
                 (Children[k].kind = "svg" /\ Children[k].styledAs = "none")

====
